---- MODULE Spec2Model ----
(***************************************************************************)
(* Model of django_queryparams_parser: the parameter declarations of       *)
(* params.py (construction, parse, validate_single, validate_all) and the  *)
(* registry of _main.py (register_pattern, register_path_params,           *)
(* parse_query_params, validate_request_params).                           *)
(*                                                                         *)
(* Python strings that are parsed are sequences of one-character strings;  *)
(* names and exception kinds are plain strings.  A raised exception is a   *)
(* record [exc |-> kind, msg |-> text]; a normal result has exc = "none".  *)
(***************************************************************************)
EXTENDS Integers, Sequences, FiniteSets, TLC

VARIABLES
    pattern_params,   \* QueryParamRegistry.pattern_params: dict, in insertion order
    view_params,      \* QueryParamRegistry._view_params: dict, in insertion order
    last,             \* the last registry call made and what it returned or raised
    made,             \* the last declaration constructor call and its outcome
    checked           \* the last validate_single / validate_all call and its outcome

vars == <<pattern_params, view_params, last, made, checked>>

----------------------------------------------------------------------------
(* Exceptions and results *)

Raise(kind, text) == [exc |-> kind, msg |-> text]

Value(v) == [exc |-> "none", v |-> v]

Ok(r) == r.exc = "none"

\* A local variable: Body evaluated with its name bound to the value v
Bind(v, Body(_)) == Body(v)

\* The two exception classes the specification calls configuration errors.
ConfigurationErrors == {"ValueError", "TypeError"}

----------------------------------------------------------------------------
(* Lexical helpers: Python str operations on character sequences *)

DigitOf == ("0" :> 0) @@ ("1" :> 1) @@ ("2" :> 2) @@ ("3" :> 3) @@ ("4" :> 4)
           @@ ("5" :> 5) @@ ("6" :> 6) @@ ("7" :> 7) @@ ("8" :> 8) @@ ("9" :> 9)

IsDigit(c) == c \in DOMAIN DigitOf

AllDigits(s) == \A i \in 1..Len(s) : IsDigit(s[i])

RECURSIVE DigitsValue(_, _)
DigitsValue(s, acc) ==
    IF s = <<>> THEN acc ELSE DigitsValue(Tail(s), acc * 10 + DigitOf[Head(s)])

RECURSIVE LStrip(_, _)
LStrip(s, c) == IF s # <<>> /\ Head(s) = c THEN LStrip(Tail(s), c) ELSE s

RECURSIVE RStrip(_, _)
RStrip(s, c) ==
    IF s # <<>> /\ s[Len(s)] = c THEN RStrip(SubSeq(s, 1, Len(s) - 1), c) ELSE s

Strip(s) == RStrip(LStrip(s, " "), " ")

\* str.replace(old, new) for one-character old and new
Replace(s, old, new) == [i \in 1..Len(s) |-> IF s[i] = old THEN new ELSE s[i]]

LowerOf == ("T" :> "t") @@ ("R" :> "r") @@ ("U" :> "u") @@ ("E" :> "e")
           @@ ("F" :> "f") @@ ("A" :> "a") @@ ("L" :> "l") @@ ("S" :> "s")
           @@ ("Y" :> "y") @@ ("N" :> "n") @@ ("O" :> "o")

\* str.lower() over the letters the model's raw values use
Lower(s) == [i \in 1..Len(s) |-> IF s[i] \in DOMAIN LowerOf THEN LowerOf[s[i]] ELSE s[i]]

----------------------------------------------------------------------------
(* Arguments: a constructor bound or a raw value handed to parse is tagged, *)
(* because Python accepts a native number as well as a string there.        *)

Absent == [t |-> "absent"]
None == [t |-> "none"]
Num(n) == [t |-> "num", v |-> n]
Str_(s) == [t |-> "str", s |-> s]

\* int(x): an int is returned as is; a string is stripped of blanks, then an
\* optional sign and a non-empty run of decimal digits (underscore grouping is
\* not part of the modelled alphabet).
PyInt(x) ==
    IF x.t = "num" THEN Value(x.v)
    ELSE IF x.t # "str" THEN Raise("TypeError", <<>>)
    ELSE LET s == Strip(x.s)
             signed == s # <<>> /\ Head(s) \in {"+", "-"}
             ds == IF signed THEN Tail(s) ELSE s
         IN  IF ds = <<>> \/ ~AllDigits(ds) THEN Raise("ValueError", <<>>)
             ELSE Value(IF signed /\ Head(s) = "-" THEN 0 - DigitsValue(ds, 0)
                        ELSE DigitsValue(ds, 0))

\* float(x), valued in tenths: a number n is n.0; a string is an optional sign,
\* digits, and optionally a point followed by at most one digit (the decimal
\* forms the modelled raw values use; exponents, inf and nan are not modelled).
PyFloat(x) ==
    IF x.t = "num" THEN Value(x.v * 10)
    ELSE IF x.t # "str" THEN Raise("TypeError", <<>>)
    ELSE LET s == Strip(x.s)
             signed == s # <<>> /\ Head(s) \in {"+", "-"}
             body == IF signed THEN Tail(s) ELSE s
             dots == {i \in 1..Len(body) : body[i] = "."}
             p == IF dots = {} THEN Len(body) + 1 ELSE CHOOSE i \in dots : TRUE
             ip == SubSeq(body, 1, p - 1)
             fp == SubSeq(body, p + 1, Len(body))
             good == /\ Cardinality(dots) <= 1
                     /\ AllDigits(ip) /\ AllDigits(fp)
                     /\ Len(ip) + Len(fp) >= 1
                     /\ Len(fp) <= 1
             mag == DigitsValue(ip, 0) * 10 + DigitsValue(fp, 0)
         IN  IF ~good THEN Raise("ValueError", <<>>)
             ELSE Value(IF signed /\ Head(s) = "-" THEN 0 - mag ELSE mag)

IsLeap(y) == (y % 4 = 0 /\ y % 100 # 0) \/ y % 400 = 0

DaysInMonth(y, m) ==
    IF m = 2 THEN (IF IsLeap(y) THEN 29 ELSE 28)
    ELSE IF m \in {4, 6, 9, 11} THEN 30 ELSE 31

\* date.fromisoformat(s) for the extended form YYYY-MM-DD; a date is valued as
\* the number y*10000 + m*100 + d, which orders as calendar dates do.
FromIsoFormat(s) ==
    LET shaped == /\ Len(s) = 10
                  /\ s[5] = "-" /\ s[8] = "-"
                  /\ AllDigits(SubSeq(s, 1, 4))
                  /\ AllDigits(SubSeq(s, 6, 7))
                  /\ AllDigits(SubSeq(s, 9, 10))
        y == DigitsValue(SubSeq(s, 1, 4), 0)
        m == DigitsValue(SubSeq(s, 6, 7), 0)
        d == DigitsValue(SubSeq(s, 9, 10), 0)
    IN  IF ~shaped THEN Raise("ValueError", <<>>)
        ELSE IF y < 1 \/ m < 1 \/ m > 12 \/ d < 1 \/ d > DaysInMonth(y, m)
             THEN Raise("ValueError", <<>>)
        ELSE Value(y * 10000 + m * 100 + d)

----------------------------------------------------------------------------
(* Classes of params.py *)

Classes == {"QueryParam", "Int", "PositiveInt", "Float", "PositiveFloat",
            "Str", "Date", "Bool"}

\* Method resolution order of each class
Mro(cls) ==
    CASE cls = "QueryParam"    -> <<"QueryParam">>
      [] cls = "Int"           -> <<"Int", "Number", "BoundedParam", "QueryParam">>
      [] cls = "PositiveInt"   -> <<"PositiveInt", "Int", "Number", "BoundedParam", "QueryParam">>
      [] cls = "Float"         -> <<"Float", "Number", "BoundedParam", "QueryParam">>
      [] cls = "PositiveFloat" -> <<"PositiveFloat", "Float", "Number", "BoundedParam", "QueryParam">>
      [] cls = "Str"           -> <<"Str", "QueryParam">>
      [] cls = "Date"          -> <<"Date", "BoundedParam", "QueryParam">>
      [] cls = "Bool"          -> <<"Bool", "QueryParam">>

IsSubclass(cls, base) == \E i \in 1..Len(Mro(cls)) : Mro(cls)[i] = base

\* The methods each class body defines, by the names the source gives them
Defines(c) ==
    CASE c = "QueryParam"   -> {"validate_single", "validate_all", "parse", "_check",
                                "_validate_choices", "_check_one_of_choices"}
      [] c = "BoundedParam" -> {"check_lower_bound", "check_upper_bound",
                                "check_upper_and_lower_bounds"}
      [] c = "Number"       -> {"check_lead_zeros", "check_plus_sign",
                                "check_lead_zeros_and_plus_sign"}
      [] c = "Str"          -> {"parse", "check_empty_string", "check_min_length",
                                "check_max_length", "check_min_and_max_length"}
      [] c = "Bool"         -> {"validate_all"}
      [] OTHER              -> {"parse"}

ClassAttributes(cls) == UNION {Defines(Mro(cls)[i]) : i \in 1..Len(Mro(cls))}

\* self.<attr> for a method: found on the class or AttributeError
GetAttr(self, attr) ==
    IF attr \in ClassAttributes(self.cls) THEN Value(attr)
    ELSE Raise("AttributeError", <<>>)

SetAttr(self, attr, v) == (attr :> v) @@ self

Object(cls) == [exc |-> "none", cls |-> cls]

IsNone(x) == x.t \in {"absent", "none"}

\* Python truthiness of a bound or length argument
Truthy(x) == CASE x.t = "num" -> x.v # 0
               [] x.t = "str" -> x.s # <<>>
               [] x.t = "list" -> x.items # <<>>
               [] OTHER -> FALSE

\* Custom validators a caller may pass: callables of (value, parsed), and one
\* callable of a single parameter, which construction rejects.
Validators == {"not_blank", "one_arg"}

ValidatorArity(f) == IF f = "one_arg" THEN 1 ELSE 2

\* not_blank(value, parsed) raises InvalidQueryParameter when value.strip() is
\* empty; a value that is no string has no strip
CallValidator(f, value, parsed) ==
    IF f = "not_blank" /\ value.t # "str" THEN Raise("AttributeError", <<>>)
    ELSE IF f = "not_blank" /\ Strip(value.s) = <<>>
    THEN Raise("InvalidQueryParameter", <<>>)
    ELSE Value(TRUE)

----------------------------------------------------------------------------
(* parse, _check, validate_single *)

IntParse(value) ==
    Bind(PyInt(value), LAMBDA r :
        IF r.exc = "ValueError" THEN Raise("InvalidQueryParameter", <<>>) ELSE r)

PositiveIntParse(value) ==
    Bind(PyInt(value), LAMBDA r :
        IF r.exc = "ValueError" THEN Raise("InvalidQueryParameter", <<>>)
        ELSE IF Ok(r) /\ r.v < 0 THEN Raise("InvalidQueryParameter", <<>>)
        ELSE r)

FloatParse(value) ==
    Bind(PyFloat(value), LAMBDA r :
        IF r.exc = "ValueError" THEN Raise("InvalidQueryParameter", <<>>) ELSE r)

PositiveFloatParse(value) ==
    Bind(PyFloat(value), LAMBDA r :
        IF r.exc = "ValueError" THEN Raise("InvalidQueryParameter", <<>>)
        ELSE IF Ok(r) /\ r.v < 0 THEN Raise("InvalidQueryParameter", <<>>)
        ELSE r)

StrParse(value) == Value(value.s)

DateParse(self, value) ==
    IF value.t # "str" THEN Raise("AttributeError", <<>>)
    ELSE Bind(FromIsoFormat(IF self.separator # "-"
                            THEN Replace(value.s, self.separator, "-")
                            ELSE value.s),
              LAMBDA r : IF r.exc = "ValueError" THEN Raise("InvalidQueryParameter", <<>>)
                         ELSE r)

parse(self, value) ==
    CASE self.cls = "Int"           -> IntParse(value)
      [] self.cls = "PositiveInt"   -> PositiveIntParse(value)
      [] self.cls = "Float"         -> FloatParse(value)
      [] self.cls = "PositiveFloat" -> PositiveFloatParse(value)
      [] self.cls = "Str"           -> StrParse(value)
      [] self.cls = "Date"          -> DateParse(self, value)
      [] OTHER                      -> Raise("NotImplementedError", <<"implement in child classes">>)

check_one_of_choices(self, value, parsed) ==
    IF parsed \notin self.choices THEN Raise("InvalidQueryParameter", <<>>)
    ELSE Value(TRUE)

RunCheck(self, val_check, value, parsed) ==
    IF val_check = "_check_one_of_choices" THEN check_one_of_choices(self, value, parsed)
    ELSE CallValidator(val_check, value, parsed)

RECURSIVE check(_, _, _, _)
check(self, value, parsed, i) ==
    IF i > Len(self.value_checks) THEN Value(TRUE)
    ELSE Bind(RunCheck(self, self.value_checks[i], value, parsed), LAMBDA r :
             IF Ok(r) THEN check(self, value, parsed, i + 1) ELSE r)

validate_single(self, value) ==
    Bind(parse(self, value), LAMBDA parsed :
        IF ~Ok(parsed) THEN parsed
        ELSE Bind(check(self, value, parsed.v, 1), LAMBDA c :
                 IF Ok(c) THEN parsed ELSE c))

\* [self.validate_single(v) for v in values]: the values, or the first exception
RECURSIVE ValidateEach(_, _, _)
ValidateEach(self, values, acc) ==
    IF values = <<>> THEN Value(acc)
    ELSE Bind(validate_single(self, Str_(Head(values))), LAMBDA r :
             IF Ok(r) THEN ValidateEach(self, Tail(values), Append(acc, r.v)) ELSE r)

\* {self.validate_single(choice) for choice in choices}
RECURSIVE validate_choices(_, _, _)
validate_choices(self, choices, acc) ==
    IF choices = <<>> THEN Value(acc)
    ELSE Bind(validate_single(self, Str_(Head(choices))), LAMBDA r :
             IF Ok(r) THEN validate_choices(self, Tail(choices), acc \cup {r.v}) ELSE r)

----------------------------------------------------------------------------
(* Construction.  kw is the keyword record of one constructor call: a field *)
(* left at its default below stands for a keyword that was not passed.      *)

List(items) == [t |-> "list", items |-> items]

Kw(cls, name) ==
    [cls |-> cls, name |-> name, required |-> FALSE, many |-> FALSE,
     choices |-> Absent, validators |-> Absent,
     min_value |-> Absent, max_value |-> Absent,
     allow_lead_zeros |-> TRUE, allow_plus_sign |-> TRUE,
     min_length |-> Absent, max_length |-> Absent,
     separator |-> "-",
     explicit |-> FALSE, ignore_case |-> TRUE, custom_bool |-> Absent]

\* The keywords a call passes
Given(kw) ==
    {f \in {"choices", "validators", "min_value", "max_value", "min_length",
            "max_length", "custom_bool"} : kw[f].t # "absent"}
    \cup {f \in {"required", "many", "explicit"} : kw[f]}
    \cup {f \in {"allow_lead_zeros", "allow_plus_sign", "ignore_case"} : ~kw[f]}
    \cup (IF kw.separator # "-" THEN {"separator"} ELSE {})

\* The keywords the __init__ chain of a class names in its signatures
Accepts(cls) ==
    LET base == {"required", "many", "choices", "validators"}
        bounded == base \cup {"min_value", "max_value"}
    IN  CASE cls \in {"Int", "PositiveInt", "Float", "PositiveFloat"} ->
                 bounded \cup {"allow_lead_zeros", "allow_plus_sign"}
          [] cls = "Date" -> bounded \cup {"separator"}
          [] cls = "Str"  -> base \cup {"min_length", "max_length"}
          [] cls = "Bool" -> {"required", "explicit", "ignore_case", "custom_bool"}
          [] OTHER        -> base

RECURSIVE ExtendValidators(_, _)
ExtendValidators(self, validators) ==
    IF validators = <<>> THEN self
    ELSE IF ValidatorArity(Head(validators)) # 2
         THEN Raise("ValueError", <<"Validator must have exactly two parameters">>)
         ELSE ExtendValidators(
                  SetAttr(self, "value_checks", Append(self.value_checks, Head(validators))),
                  Tail(validators))

\* Every validator is inspected before any is attached
ValidatorsOk(validators) ==
    \A i \in 1..Len(validators) : ValidatorArity(validators[i]) = 2

QueryParamInit(self0, kw) ==
    IF Given(kw) \ Accepts(self0.cls) # {}
    THEN Raise("TypeError", <<"unexpected keyword argument">>)
    ELSE
    LET s1 == SetAttr(SetAttr(SetAttr(SetAttr(self0, "name", kw.name),
                  "value_checks", <<>>), "required", kw.required), "many", kw.many)
    IN  IF ~IsNone(kw.choices) /\ ~IsNone(kw.validators)
        THEN Raise("ValueError", <<"Only one of 'choices' or 'validators' is allowed">>)
        ELSE
        Bind(IF IsNone(kw.choices) THEN Value({})
             ELSE validate_choices(s1, kw.choices.items, {}),
             LAMBDA c :
        LET s2 == IF IsNone(kw.choices) THEN SetAttr(s1, "choices", {})
                  ELSE SetAttr(SetAttr(s1, "value_checks",
                                   Append(s1.value_checks, "_check_one_of_choices")),
                               "choices", c.v)
        IN  IF ~Ok(c) THEN c
            ELSE IF IsNone(kw.validators) THEN s2
            ELSE IF ~ValidatorsOk(kw.validators.items)
                 THEN Raise("ValueError", <<"Validator must have exactly two parameters">>)
            ELSE ExtendValidators(s2, kw.validators.items))

\* self._value_checks.append(self.<attr>)
AppendCheck(self, attr) ==
    Bind(GetAttr(self, attr), LAMBDA a :
        IF ~Ok(a) THEN a
        ELSE SetAttr(self, "value_checks", Append(self.value_checks, a.v)))

BoundedParamInit(self0, kw) ==
    Bind(QueryParamInit(self0, kw), LAMBDA s1 :
        IF ~Ok(s1) THEN s1
        ELSE IF s1.choices # {} /\ (~IsNone(kw.min_value) \/ ~IsNone(kw.max_value))
        THEN Raise("ValueError",
                   <<"'min_value' and/or 'max_value' can't be clubbed with 'choices'">>)
        ELSE
        Bind(IF IsNone(kw.min_value) THEN Value(None)
             ELSE validate_single(s1, kw.min_value),
             LAMBDA mn :
            IF ~Ok(mn) THEN mn
            ELSE
            Bind(IF IsNone(kw.max_value) THEN Value(None)
                 ELSE validate_single(s1, kw.max_value),
                 LAMBDA mx :
            LET lo == IF IsNone(kw.min_value) THEN None ELSE Num(mn.v)
                hi == IF IsNone(kw.max_value) THEN None ELSE Num(mx.v)
                s2 == SetAttr(SetAttr(s1, "min_value", lo), "max_value", hi)
            IN  IF ~Ok(mx) THEN mx
                ELSE IF Truthy(lo) /\ Truthy(hi) /\ hi.v < lo.v
                THEN Raise("ValueError", <<"'max_value' must be >= 'min_value'">>)
                ELSE IF ~IsNone(kw.min_value) /\ ~IsNone(kw.max_value)
                THEN AppendCheck(s2, "_check_upper_and_lower_bounds")
                ELSE IF ~IsNone(kw.min_value) THEN AppendCheck(s2, "_check_lower_bound")
                ELSE IF ~IsNone(kw.max_value) THEN AppendCheck(s2, "_check_upper_bound")
                ELSE s2)))

NumberInit(self0, kw) ==
    Bind(BoundedParamInit(self0, kw), LAMBDA s1 :
        IF ~Ok(s1) THEN s1
        ELSE IF ~kw.allow_lead_zeros /\ ~kw.allow_plus_sign
        THEN AppendCheck(s1, "_check_lead_zeros_and_plus_sign")
        ELSE IF ~kw.allow_lead_zeros THEN AppendCheck(s1, "_check_lead_zeros")
        ELSE IF ~kw.allow_plus_sign THEN AppendCheck(s1, "_check_plus_sign")
        ELSE s1)

\* PositiveInt.__init__ and PositiveFloat.__init__: kwargs.get("min_value", 0) < 0
PositiveInit(self0, kw) ==
    IF kw.min_value.t \in {"none", "str"}
    THEN Raise("TypeError", <<"'<' not supported">>)
    ELSE IF kw.min_value.t = "num" /\ kw.min_value.v < 0
    THEN Raise("ValueError", <<>>)
    ELSE NumberInit(self0, kw)

StrInit(self0, kw) ==
    Bind(QueryParamInit(self0, kw), LAMBDA s1 :
    LET mn == kw.min_length
        mx == kw.max_length
    IN  IF ~Ok(s1) THEN s1
        ELSE IF s1.choices # {} /\ (~IsNone(mn) \/ ~IsNone(mx))
        THEN Raise("ValueError", <<>>)
        ELSE IF Truthy(mn) /\ mn.v < 1
        THEN Raise("ValueError", <<"'min_length' must be a natural number(> 0)">>)
        ELSE IF Truthy(mx) /\ IsNone(mn)
        THEN Raise("TypeError", <<"'<' not supported">>)
        ELSE IF Truthy(mx) /\ mn.v < 1
        THEN Raise("ValueError", <<"'max_length' must be a natural number(> 0)">>)
        ELSE IF Truthy(mn) /\ Truthy(mx) /\ mx.v < mn.v
        THEN Raise("ValueError", <<"'max_length' must be >= 'min_length'">>)
        ELSE
        LET s2 == SetAttr(s1, "min_length", IF mn.t = "absent" THEN None ELSE mn)
        IN  IF ~IsNone(mn) /\ ~IsNone(mx) THEN AppendCheck(s2, "_check_min_and_max_length")
            ELSE IF ~IsNone(mn) THEN AppendCheck(s2, "_check_min_length")
            ELSE IF ~IsNone(mx) THEN AppendCheck(s2, "_check_max_length")
            ELSE s2)

DateInit(self0, kw) ==
    IF kw.separator \notin {"-", "/"} THEN Raise("ValueError", <<>>)
    ELSE BoundedParamInit(SetAttr(self0, "separator", kw.separator), kw)

BoolInit(self0, kw) ==
    IF Given(kw) \ Accepts("Bool") # {}
    THEN Raise("TypeError", <<"unexpected keyword argument">>)
    ELSE IF ~kw.explicit /\ kw.required
    THEN Raise("ValueError", <<"'explicit' must be True if 'required' is True">>)
    ELSE
    LET s1 == SetAttr(SetAttr(SetAttr(SetAttr(SetAttr(SetAttr(self0,
                  "name", kw.name), "truthy", <<"t", "r", "u", "e">>),
                  "falsy", <<"f", "a", "l", "s", "e">>),
                  "required", kw.required), "explicit", kw.explicit),
                  "ignore_case", kw.ignore_case)
    IN  IF ~Truthy(kw.custom_bool) THEN s1
        \* the items are strings, so the length test alone never raises; the
        \* unpacking into (truthy, falsy) does
        ELSE IF Len(kw.custom_bool.items) # 2
        THEN Raise("ValueError", <<"unpack">>)
        ELSE SetAttr(SetAttr(s1, "truthy", kw.custom_bool.items[1]),
                     "falsy", kw.custom_bool.items[2])

InitOf(self0, kw) ==
    CASE self0.cls \in {"Int", "Float"}                 -> NumberInit(self0, kw)
      [] self0.cls \in {"PositiveInt", "PositiveFloat"} -> PositiveInit(self0, kw)
      [] self0.cls = "Str"                              -> StrInit(self0, kw)
      [] self0.cls = "Date"                             -> DateInit(self0, kw)
      [] self0.cls = "Bool"                             -> BoolInit(self0, kw)
      [] OTHER                                          -> QueryParamInit(self0, kw)

\* Nested constructor calls allowed before RecursionError (Python's interpreter
\* stack limit, scaled down)
RecursionLimit == 3

\* kwargs.get("min_value") == 0
MinValueIsZero(kw) == kw.min_value.t = "num" /\ kw.min_value.v = 0

\* cls(name, **kwargs): type.__call__ runs cls.__new__, then __init__ of the
\* object if it is an instance of cls.  Int.__new__ and Float.__new__ are
\* inherited by the positive subclasses.
RECURSIVE Construct(_, _, _)
Construct(cls, kw, depth) ==
    IF depth > RecursionLimit
    THEN Raise("RecursionError", <<"maximum recursion depth exceeded">>)
    ELSE
    Bind(IF IsSubclass(cls, "Int") /\ MinValueIsZero(kw)
         THEN Construct("PositiveInt", kw, depth + 1)
         ELSE IF IsSubclass(cls, "Float") /\ MinValueIsZero(kw)
         THEN Construct("PositiveFloat", kw, depth + 1)
         ELSE Object(cls),
         LAMBDA obj :
        IF ~Ok(obj) THEN obj
        ELSE IF IsSubclass(obj.cls, cls) THEN InitOf(obj, kw)
        ELSE obj)

New(kw) == Construct(kw.cls, kw, 1)

----------------------------------------------------------------------------
(* validate_all *)

QueryParam_validate_all(self, values) ==
    IF self.many \/ Len(values) = 1 THEN ValidateEach(self, values, <<>>)
    ELSE Raise("InvalidQueryParameter", <<"Expected 1 value, got", Len(values)>>)

\* Bool.validate_all reading the first value instead of the last
Bool_validate_all_first(self, values) ==
    IF values = <<>> THEN Raise("IndexError", <<"list index out of range">>)
    ELSE
    LET value0 == values[1]
        value == IF self.ignore_case THEN Lower(value0) ELSE value0
    IN  IF ~self.explicit /\ value0 = <<>> THEN Value(<<TRUE>>)
        ELSE IF value = self.truthy THEN Value(<<TRUE>>)
        ELSE IF value = self.falsy THEN Value(<<FALSE>>)
        ELSE Raise("InvalidQueryParameter",
                   <<"Expected one of", self.truthy, self.falsy, value>>)

Bool_validate_all(self, values) ==
    IF values = <<>> THEN Raise("IndexError", <<"list index out of range">>)
    ELSE
    LET value0 == values[Len(values)]
        value == IF self.ignore_case THEN Lower(value0) ELSE value0
    IN  IF ~self.explicit /\ value0 = <<>> THEN Value(<<TRUE>>)
        ELSE IF value = self.truthy THEN Value(<<TRUE>>)
        ELSE IF value = self.falsy THEN Value(<<FALSE>>)
        ELSE Raise("InvalidQueryParameter",
                   <<"Expected one of", self.truthy, self.falsy, value>>)

validate_all(self, values) ==
    IF self.cls = "Bool" THEN Bool_validate_all(self, values)
    ELSE QueryParam_validate_all(self, values)

----------------------------------------------------------------------------
(* The registry of _main.py.  A dict is a sequence of entries in insertion  *)
(* order, with at most one entry per key.                                   *)

IsQueryParam(x) == x.cls \in Classes

IsCollection(x) == x.cls = "QueryParamCollection"

\* QueryParamCollection(query_params)
QueryParamCollection(query_params) ==
    IF \E i \in 1..Len(query_params) : ~IsQueryParam(query_params[i])
    THEN Raise("TypeError", <<"Expected QueryParam">>)
    ELSE [exc |-> "none", cls |-> "QueryParamCollection", query_params |-> query_params]

RECURSIVE normalize_params(_, _)
normalize_params(params, normalized) ==
    IF params = <<>> THEN Value(normalized)
    ELSE LET param == Head(params)
         IN  IF IsCollection(param)
             THEN normalize_params(Tail(params), normalized \o param.query_params)
             ELSE IF IsQueryParam(param)
             THEN normalize_params(Tail(params), Append(normalized, param))
             ELSE Raise("TypeError", <<"Expected QueryParam or QueryParamCollection">>)

Keys(d) == {d[i].key : i \in 1..Len(d)}

Get(d, k) == d[CHOOSE i \in 1..Len(d) : d[i].key = k].val

\* d[k] = v: a present key keeps its position
Put(d, k, v) ==
    IF k \in Keys(d)
    THEN [i \in 1..Len(d) |-> IF d[i].key = k THEN [key |-> k, val |-> v] ELSE d[i]]
    ELSE Append(d, [key |-> k, val |-> v])

\* del d[k]
Del(d, k) == SelectSeq(d, LAMBDA e : e.key # k)

\* register_pattern without the refusal of a pattern that is already recorded
register_pattern_overwrite(pp, pattern, params) ==
    Bind(normalize_params(params, <<>>), LAMBDA normalized_params :
        IF ~Ok(normalized_params) THEN normalized_params
        ELSE Value(Put(pp, pattern, normalized_params.v)))

\* register_pattern: the registry after the call, or the exception raised
register_pattern(pp, pattern, params) ==
    IF pattern \in Keys(pp) THEN Raise("PatternAlreadyRegisteredError", <<pattern>>)
    ELSE Bind(normalize_params(params, <<>>), LAMBDA normalized_params :
             IF ~Ok(normalized_params) THEN normalized_params
             ELSE Value(Put(pp, pattern, normalized_params.v)))

\* Function objects: the callables each function's closure cells hold
Closure ==
    [f \in {"view_a", "view_b", "view_c", "wrap_a", "wrap_ab"} |->
        CASE f = "wrap_a"  -> {"view_a"}
          [] f = "wrap_ab" -> {"wrap_a", "view_b"}
          [] OTHER         -> {}]

RECURSIVE get_closure_function_ids(_)
get_closure_function_ids(func) ==
    {func} \cup UNION {get_closure_function_ids(g) : g \in Closure[func]}

\* FirstView without the break: the last pending entry among func_ids
LastView(vp, func_ids) ==
    IF \E i \in 1..Len(vp) : vp[i].key \in func_ids
    THEN CHOOSE i \in 1..Len(vp) :
             /\ vp[i].key \in func_ids
             /\ \A j \in (i + 1)..Len(vp) : vp[j].key \notin func_ids
    ELSE 0

\* The first entry of view_params whose key is among func_ids, or 0
FirstView(vp, func_ids) ==
    IF \E i \in 1..Len(vp) : vp[i].key \in func_ids
    THEN CHOOSE i \in 1..Len(vp) :
             /\ vp[i].key \in func_ids
             /\ \A j \in 1..(i - 1) : vp[j].key \notin func_ids
    ELSE 0

\* A list argument that is not None and not empty
NonEmptyList(x) == x.t = "list" /\ x.items # <<>>

AlreadyDefined == Raise("ValueError", <<"query params are defined at both urlconf and its view">>)

\* register_path_params: [exc, msg, pp, vp] with the registry as the call leaves it
register_path_params(pp, vp, urlpattern, query_params) ==
    Bind(IF NonEmptyList(query_params)
         THEN register_pattern(pp, urlpattern.pattern, query_params.items)
         ELSE Value(pp),
         LAMBDA r1 :
        IF r1.exc = "PatternAlreadyRegisteredError"
        THEN [exc |-> "ValueError", msg |-> AlreadyDefined.msg, pp |-> pp, vp |-> vp]
        ELSE IF ~Ok(r1) THEN [exc |-> r1.exc, msg |-> r1.msg, pp |-> pp, vp |-> vp]
        ELSE
        Bind(FirstView(vp, get_closure_function_ids(urlpattern.callback)), LAMBDA i :
            IF i = 0 THEN [exc |-> "none", msg |-> <<>>, pp |-> r1.v, vp |-> vp]
            ELSE
            Bind(register_pattern(r1.v, urlpattern.pattern, vp[i].val), LAMBDA r2 :
                IF r2.exc = "PatternAlreadyRegisteredError"
                THEN [exc |-> "ValueError", msg |-> AlreadyDefined.msg,
                      pp |-> r1.v, vp |-> vp]
                ELSE IF ~Ok(r2)
                THEN [exc |-> r2.exc, msg |-> r2.msg, pp |-> r1.v, vp |-> vp]
                ELSE [exc |-> "none", msg |-> <<>>, pp |-> r2.v,
                      vp |-> Del(vp, vp[i].key)])))

\* is_middleware_disabled(): the model is of a project that installs the middleware
is_middleware_disabled == FALSE

\* parse_query_params(query_params)(view): the pending dict after the decorator ran
parse_query_params(vp, query_params, view) ==
    IF is_middleware_disabled THEN vp ELSE Put(vp, view, query_params)

\* pattern.match(path): Django's RoutePattern for a route without converters
\* matches the path that equals the route
Match(urlpattern_route, path) == urlpattern_route = path

MissingError(name) == [msg |-> <<"Missing required query param">>, name |-> name]

InvalidError(exc, name) == [msg |-> exc.msg, name |-> name]

\* parsed[name]: a defaultdict(list) creates the entry when it is first read
Touch(parsed, name) ==
    IF name \in DOMAIN parsed THEN parsed ELSE (name :> <<>>) @@ parsed

\* The loop over one pattern's declared params; acc is [exc, msg, parsed, errors]
RECURSIVE ValidateDeclared(_, _, _)
ValidateDeclared(declared_params, query_dict, acc) ==
    IF declared_params = <<>> \/ ~Ok(acc) THEN acc
    ELSE
    LET param == Head(declared_params)
        rest == Tail(declared_params)
    IN  IF param.name \in DOMAIN query_dict
        THEN Bind(validate_all(param, query_dict[param.name]), LAMBDA r :
             LET touched == Touch(acc.parsed, param.name)
             IN  IF Ok(r)
                 THEN ValidateDeclared(rest, query_dict,
                          [acc EXCEPT !.parsed =
                              [touched EXCEPT ![param.name] = @ \o r.v]])
                 ELSE IF r.exc = "InvalidQueryParameter"
                 THEN ValidateDeclared(rest, query_dict,
                          [acc EXCEPT !.parsed = touched,
                                      !.errors = Append(@, InvalidError(r, param.name))])
                 ELSE [acc EXCEPT !.exc = r.exc, !.msg = r.msg, !.parsed = touched])
        ELSE IF param.required
        THEN ValidateDeclared(rest, query_dict,
                 [acc EXCEPT !.errors = Append(@, MissingError(param.name))])
        ELSE ValidateDeclared(rest, query_dict, acc)

\* The loop over pattern_params.items()
RECURSIVE ValidatePatterns(_, _, _, _)
ValidatePatterns(pp, path, query_dict, acc) ==
    IF pp = <<>> \/ ~Ok(acc) THEN acc
    ELSE IF Match(Head(pp).key.route, LStrip(path, "/"))
    THEN ValidatePatterns(Tail(pp), path, query_dict,
             ValidateDeclared(Head(pp).val, query_dict, acc))
    ELSE ValidatePatterns(Tail(pp), path, query_dict, acc)

EmptyDict == [n \in {} |-> <<>>]

validate_request_params(pp, path, query_dict) ==
    ValidatePatterns(pp, path, query_dict,
        [exc |-> "none", msg |-> <<>>, parsed |-> EmptyDict, errors |-> <<>>])

----------------------------------------------------------------------------
(* Inputs: the raw values, declarations, routes and requests the model draws from *)

RawTrue == <<"t", "r", "u", "e">>
RawTRUE == <<"T", "R", "U", "E">>
RawFalse == <<"f", "a", "l", "s", "e">>
RawYes == <<"y", "e", "s">>
RawYesCap == <<"Y", "e", "s">>
RawNo == <<"n", "o">>
RawDate == <<"2", "0", "2", "4", "-", "0", "1", "-", "3", "1">>
RawDateSlash == <<"2", "0", "2", "4", "/", "0", "1", "/", "3", "1">>
RawDateEarly == <<"2", "0", "2", "4", "-", "0", "1", "-", "0", "1">>
RawDateBad == <<"2", "0", "2", "4", "-", "1", "3", "-", "0", "1">>

RawValues ==
    {<<>>, <<"0">>, <<"2">>, <<"-", "1">>, <<"+", "2">>, <<"0", "7">>, <<" ", "2">>,
     <<"1", ".", "5">>, <<"x">>, RawTrue, RawTRUE, RawFalse, RawYes, RawYesCap, RawNo,
     RawDate, RawDateSlash, RawDateBad}

\* The sequences of raw values a request carries under one key
ValueLists ==
    {<<>>} \cup {<<v>> : v \in RawValues}
    \cup {<<"2">>, <<"x">>, RawTrue, <<>>} \X {<<"2">>, <<"-", "1">>, RawTRUE, <<>>}
    \cup {<<RawYes, RawNo>>, <<RawNo, RawYesCap>>, <<RawFalse, RawTrue, RawFalse>>}

NumericClasses == {"Int", "PositiveInt", "Float", "PositiveFloat"}

ChoiceLists == {Absent, List(<<>>), List(<<<<"1">>, <<"2">>>>), List(<<<<"x">>>>)}

ValidatorLists == {Absent, List(<<"not_blank">>), List(<<"one_arg">>)}

\* The constructor calls the model makes
NumericInputs ==
    {[Kw(c, "n") EXCEPT !.min_value = mn, !.max_value = mx, !.choices = ch,
                        !.validators = vs, !.many = m]
        : c \in NumericClasses,
          mn \in {Absent, None, Num(-1), Num(0), Num(1), Num(5)},
          mx \in {Absent, Num(0), Num(3)},
          ch \in ChoiceLists,
          vs \in {Absent, List(<<"not_blank">>)},
          m \in BOOLEAN}
    \cup {[Kw(c, "n") EXCEPT !.allow_lead_zeros = z, !.allow_plus_sign = p]
        : c \in NumericClasses, z \in BOOLEAN, p \in BOOLEAN}

DateInputs ==
    {[Kw("Date", "d") EXCEPT !.min_value = mn, !.max_value = mx, !.choices = ch,
                             !.separator = sep]
        : mn \in {Absent, Str_(RawDate), Str_(RawDateBad)},
          mx \in {Absent, Str_(RawDateEarly)},
          ch \in {Absent, List(<<>>), List(<<RawDate>>)},
          sep \in {"-", "/", "."}}

StrInputs ==
    {[Kw("Str", "s") EXCEPT !.min_length = mn, !.max_length = mx, !.choices = ch,
                            !.validators = vs, !.many = m]
        : mn \in {Absent, Num(0), Num(1), Num(2)},
          mx \in {Absent, Num(0), Num(1)},
          ch \in {Absent, List(<<>>), List(<<<<"x">>>>)},
          vs \in ValidatorLists,
          m \in BOOLEAN}

BoolInputs ==
    {[Kw("Bool", "b") EXCEPT !.required = r, !.explicit = e, !.ignore_case = i,
                             !.custom_bool = cb, !.choices = ch]
        : r \in BOOLEAN, e \in BOOLEAN, i \in BOOLEAN,
          cb \in {Absent, List(<<RawYes, RawNo>>), List(<<RawYesCap, RawNo>>),
                  List(<<RawYes>>)},
          ch \in {Absent, List(<<RawTrue>>)}}

BaseInputs ==
    {[Kw("QueryParam", "q") EXCEPT !.choices = ch, !.validators = vs, !.min_value = mn]
        : ch \in {Absent, List(<<>>)}, vs \in ValidatorLists, mn \in {Absent, Num(1)}}

ConstructorInputs == NumericInputs \cup DateInputs \cup StrInputs \cup BoolInputs \cup BaseInputs

----------------------------------------------------------------------------
(* Declarations: one constructor call and the calls made on its result *)

\* The arguments of the constructor call under study
InitDecl ==
    /\ pattern_params = <<>>
    /\ view_params = <<>>
    /\ last = [op |-> "none"]
    /\ \E kw \in ConstructorInputs : made = [op |-> "args", kw |-> kw]
    /\ checked = [op |-> "none"]

\* cls(name, **kwargs)
MakeDecl ==
    /\ made.op = "args"
    /\ made' = [op |-> "new", kw |-> made.kw, res |-> New(made.kw)]
    /\ UNCHANGED <<pattern_params, view_params, last, checked>>

\* declaration.validate_single(value)
CallValidateSingle ==
    /\ made.op = "new" /\ Ok(made.res) /\ made.res.cls # "Bool"
    /\ \E value \in RawValues :
        checked' = [op |-> "validate_single", value |-> value,
                    res |-> validate_single(made.res, Str_(value))]
    /\ UNCHANGED <<pattern_params, view_params, last, made>>

\* declaration.validate_all(values)
CallValidateAll ==
    /\ made.op = "new" /\ Ok(made.res)
    /\ \E values \in ValueLists :
        checked' = [op |-> "validate_all", values |-> values,
                    res |-> validate_all(made.res, values)]
    /\ UNCHANGED <<pattern_params, view_params, last, made>>

NextDecl == MakeDecl \/ CallValidateSingle \/ CallValidateAll

SpecDecl == InitDecl /\ [][NextDecl]_vars

----------------------------------------------------------------------------
(* The registry: routes, handlers, declaration lists and requests *)

\* Declarations that routes and handlers are given
Page == New(Kw("PositiveInt", "page"))
PageRequired == New([Kw("Int", "page") EXCEPT !.required = TRUE])
Tag == New([Kw("Str", "tag") EXCEPT !.many = TRUE])
Flag == New(Kw("Bool", "flag"))
Size == New([Kw("Int", "size") EXCEPT !.required = TRUE,
                                      !.choices = List(<<<<"1">>, <<"2">>>>)])

ItemsList == <<Page, Tag>>
SizedList == <<Size, QueryParamCollection(<<Flag>>), PageRequired>>
TwiceList == <<PageRequired, QueryParamCollection(<<Tag, PageRequired>>)>>

\* query_params arguments of path() / register_path_params / register_pattern
RouteLists == {None, List(ItemsList), List(<<Tag, [cls |-> "str"]>>)}

\* The query_params the parse_query_params decorator is given on each view
ViewList == [view \in {"view_a", "view_b"} |->
                IF view = "view_a" THEN SizedList ELSE TwiceList]

RouteA == <<"a">>
RouteB == <<"b">>

\* URLPattern objects: a pattern object (its identity and route) and a callback
URLPatterns ==
    {[pattern |-> [id |-> 1, route |-> RouteA], callback |-> "view_a"],
     [pattern |-> [id |-> 2, route |-> RouteA], callback |-> "wrap_ab"],
     [pattern |-> [id |-> 3, route |-> RouteB], callback |-> "view_c"]}

Paths == {<<"/", "a">>, <<"/", "/", "b">>}

\* request.GET: multi-value dicts from names to lists of raw values
QueryDicts ==
    {EmptyDict,
     "page" :> <<<<"2">>>>,
     "page" :> <<<<"-", "1">>>>,
     "page" :> <<<<"2">>, <<"1">>>>,
     ("page" :> <<<<"2">>>>) @@ ("tag" :> <<<<"x">>, <<"2">>>>),
     ("page" :> <<<<"x">>>>) @@ ("tag" :> <<>>),
     "flag" :> <<>>,
     ("flag" :> <<RawTRUE>>) @@ ("size" :> <<<<"2">>>>),
     ("flag" :> <<<<"x">>, RawTrue>>) @@ ("size" :> <<<<"2">>>>) @@ ("page" :> <<<<"2">>>>),
     ("flag" :> <<RawTrue, <<"x">>>>) @@ ("page" :> <<<<"2">>, <<"1">>>>),
     ("size" :> <<<<"5">>>>) @@ ("page" :> <<<<"2">>>>) @@ ("undeclared" :> <<<<"x">>>>),
     ("size" :> <<<<"1">>>>) @@ ("flag" :> <<<<>>>>) @@ ("page" :> <<<<"0", "7">>>>)
                             @@ ("tag" :> <<<<"x">>>>)}

Init ==
    /\ pattern_params = <<>>
    /\ view_params = <<>>
    /\ last = [op |-> "none"]
    /\ made = [op |-> "none"]
    /\ checked = [op |-> "none"]

\* param_registry.register_pattern(pattern, params)
RegisterPattern ==
    \E u \in URLPatterns, params \in RouteLists \ {None} :
        \E r \in {register_pattern(pattern_params, u.pattern, params.items)} :
            /\ pattern_params' = IF Ok(r) THEN r.v ELSE pattern_params
            /\ last' = [op |-> "register_pattern", pattern |-> u.pattern,
                        params |-> params, exc |-> r.exc]
            /\ UNCHANGED <<view_params, made, checked>>

\* register_path_params(urlpattern, query_params), which path() calls
RegisterPathParams ==
    \E u \in URLPatterns, query_params \in RouteLists :
        \E r \in {register_path_params(pattern_params, view_params, u, query_params)} :
            /\ pattern_params' = r.pp
            /\ view_params' = r.vp
            /\ last' = [op |-> "register_path_params", urlpattern |-> u,
                        query_params |-> query_params, exc |-> r.exc]
            /\ UNCHANGED <<made, checked>>

\* @parse_query_params(query_params) applied to a view function
ParseQueryParams ==
    \E view \in DOMAIN ViewList :
        /\ view_params' = parse_query_params(view_params, ViewList[view], view)
        /\ last' = [op |-> "parse_query_params", view |-> view, exc |-> "none"]
        /\ UNCHANGED <<pattern_params, made, checked>>

\* param_registry.validate_request_params(request.path, request.GET)
ValidateRequest ==
    \E path \in Paths, query_dict \in QueryDicts :
        /\ last' = [op |-> "validate_request_params", path |-> path,
                    query_dict |-> query_dict,
                    res |-> validate_request_params(pattern_params, path, query_dict)]
        /\ UNCHANGED <<pattern_params, view_params, made, checked>>

Next == RegisterPattern \/ RegisterPathParams \/ ParseQueryParams \/ ValidateRequest

Spec == Init /\ [][Next]_vars

----------------------------------------------------------------------------
(* Properties of validate_request_params *)

IsRequestResult == last.op = "validate_request_params"

Returned == IsRequestResult /\ last.res.exc = "none"

\* The registry entries whose pattern matches the request path, in registry order
MatchingEntries(pp, path) ==
    SelectSeq(pp, LAMBDA e : Match(e.key.route, LStrip(path, "/")))

UniqueNames(declared) ==
    \A i, j \in 1..Len(declared) : declared[i].name = declared[j].name => i = j

ErrorsNaming(errors, name) == {k \in 1..Len(errors) : errors[k].name = name}

NonManyTooMany(d, q) ==
    /\ d.cls # "Bool"
    /\ ~d.many
    /\ d.name \in DOMAIN q
    /\ Len(q[d.name]) >= 2

\* C1: in a returned result, every non-many, non-Boolean declaration of a matched
\* route that received two or more raw values has a "too many values" error
\* under its name and no entry, not even an empty one, in the parsed map.
C1_TooManyValuesLeaveNoEntry ==
    Returned =>
        LET m == MatchingEntries(pattern_params, last.path)
            q == last.query_dict
        IN  \A e \in 1..Len(m) : \A i \in 1..Len(m[e].val) :
                NonManyTooMany(m[e].val[i], q) =>
                    /\ \E k \in 1..Len(last.res.errors) :
                           last.res.errors[k] =
                               [msg |-> <<"Expected 1 value, got", Len(q[m[e].val[i].name])>>,
                                name |-> m[e].val[i].name]
                    /\ m[e].val[i].name \notin DOMAIN last.res.parsed

\* The error half of C1 alone, which the code satisfies
C1_TooManyValuesReported ==
    Returned =>
        LET m == MatchingEntries(pattern_params, last.path)
            q == last.query_dict
        IN  \A e \in 1..Len(m) : \A i \in 1..Len(m[e].val) :
                NonManyTooMany(m[e].val[i], q) =>
                    \E k \in 1..Len(last.res.errors) :
                        last.res.errors[k] =
                            [msg |-> <<"Expected 1 value, got", Len(q[m[e].val[i].name])>>,
                             name |-> m[e].val[i].name]

\* C2: in a returned result over routes that each declare every name once, every
\* required declaration of a matched route that the request leaves out has
\* exactly one "missing" error naming it and no entry in the parsed map.
C2_OneMissingErrorPerAbsentRequired ==
    (Returned /\ \A r \in 1..Len(pattern_params) : UniqueNames(pattern_params[r].val)) =>
        LET m == MatchingEntries(pattern_params, last.path)
            q == last.query_dict
        IN  \A e \in 1..Len(m) : \A i \in 1..Len(m[e].val) :
                (m[e].val[i].required /\ m[e].val[i].name \notin DOMAIN q) =>
                    /\ Cardinality({k \in 1..Len(last.res.errors) :
                           last.res.errors[k] = MissingError(m[e].val[i].name)}) = 1
                    /\ m[e].val[i].name \notin DOMAIN last.res.parsed

EmptyResult == [exc |-> "none", msg |-> <<>>, parsed |-> EmptyDict, errors |-> <<>>]

\* C3: the result of a request is what the declarations of the first registered
\* route matching the path produce alone.
C3_FirstMatchOnly ==
    IsRequestResult =>
        LET m == MatchingEntries(pattern_params, last.path)
        IN  last.res = IF m = <<>> THEN EmptyResult
                       ELSE ValidateDeclared(m[1].val, last.query_dict, EmptyResult)

\* All declarations the code applies to a path: those of every matching route
RECURSIVE Concat(_)
Concat(ss) == IF ss = <<>> THEN <<>> ELSE Head(ss).val \o Concat(Tail(ss))

Applied(pp, path) == Concat(MatchingEntries(pp, path))

\* What one declaration does with a request: "skip", "missing", "invalid" or "ok"
Outcome(d, q) ==
    IF d.name \notin DOMAIN q THEN (IF d.required THEN "missing" ELSE "skip")
    ELSE Bind(validate_all(d, q[d.name]), LAMBDA r :
             IF Ok(r) THEN "ok"
             ELSE IF r.exc = "InvalidQueryParameter" THEN "invalid" ELSE "raise")

Failing(declared, q) == SelectSeq(declared, LAMBDA d : Outcome(d, q) \in {"missing", "invalid", "raise"})

RECURSIVE Accepted(_, _, _)
Accepted(declared, q, name) ==
    IF declared = <<>> THEN <<>>
    ELSE (IF Head(declared).name = name /\ Outcome(Head(declared), q) = "ok"
          THEN validate_all(Head(declared), q[name]).v ELSE <<>>)
         \o Accepted(Tail(declared), q, name)

\* C6: every request is answered with a result in which each declared parameter
\* that is missing-but-required or fails validation has exactly one error, the
\* errors in declaration order, and each parameter that validates has its
\* coerced values in the parsed map whatever the other parameters did.
C6_NonShortCircuiting ==
    IsRequestResult =>
        LET declared == Applied(pattern_params, last.path)
            q == last.query_dict
            failing == Failing(declared, q)
        IN  /\ last.res.exc = "none"
            /\ Len(last.res.errors) = Len(failing)
            /\ \A k \in 1..Len(failing) :
                   /\ last.res.errors[k].name = failing[k].name
                   /\ (last.res.errors[k] = MissingError(failing[k].name))
                          <=> (Outcome(failing[k], q) = "missing")
            /\ \A i \in 1..Len(declared) :
                   Outcome(declared[i], q) = "ok" =>
                       /\ declared[i].name \in DOMAIN last.res.parsed
                       /\ last.res.parsed[declared[i].name] = Accepted(declared, q, declared[i].name)

\* C6 for the requests the call answers rather than aborts
C6_WhenReturned ==
    Returned =>
        LET declared == Applied(pattern_params, last.path)
            q == last.query_dict
            failing == Failing(declared, q)
        IN  /\ Len(last.res.errors) = Len(failing)
            /\ \A k \in 1..Len(failing) :
                   /\ last.res.errors[k].name = failing[k].name
                   /\ (last.res.errors[k] = MissingError(failing[k].name))
                          <=> (Outcome(failing[k], q) = "missing")
            /\ \A i \in 1..Len(declared) :
                   Outcome(declared[i], q) = "ok" =>
                       /\ declared[i].name \in DOMAIN last.res.parsed
                       /\ last.res.parsed[declared[i].name] = Accepted(declared, q, declared[i].name)

\* C7: validate_request_params never raises; every failure is an entry of the
\* returned error list.
C7_NeverRaises == IsRequestResult => last.res.exc = "none"

----------------------------------------------------------------------------
(* Properties of registration *)

\* C4: registering a pattern that already has a recorded declaration set fails
\* (register_pattern with PatternAlreadyRegisteredError; register_path_params,
\* when it has route-level or pending handler declarations to record, with
\* ValueError) and leaves every record of the registry, and the pending
\* handler declarations, as they were.
C4_DuplicateRouteRejected ==
    [][ /\ (last'.op = "register_pattern" /\ last'.pattern \in Keys(pattern_params)) =>
              /\ last'.exc = "PatternAlreadyRegisteredError"
              /\ pattern_params' = pattern_params
              /\ view_params' = view_params
        /\ (/\ last'.op = "register_path_params"
            /\ last'.urlpattern.pattern \in Keys(pattern_params)
            /\ \/ NonEmptyList(last'.query_params)
               \/ \E i \in 1..Len(view_params) :
                      view_params[i].key \in get_closure_function_ids(last'.urlpattern.callback)) =>
              /\ last'.exc = "ValueError"
              /\ pattern_params' = pattern_params
              /\ view_params' = view_params
      ]_vars

\* A duplicate registration was refused while other routes are recorded
C4_Witness ==
    /\ last.op = "register_pattern"
    /\ last.exc = "PatternAlreadyRegisteredError"
    /\ last.pattern \in Keys(pattern_params)
    /\ Len(pattern_params) >= 2

\* The pending entries, by position, whose handler the callback resolves to
Resolved(vp, callback) ==
    {i \in 1..Len(vp) : vp[i].key \in get_closure_function_ids(callback)}

\* C5 (as claimed): a successful route registration records the declarations of
\* every pending handler its callback resolves to and removes each such pending
\* entry, so no pending entry is left for a handler matched to a route.
C5_EveryResolvedEntryConsumed ==
    [][ (last'.op = "register_path_params" /\ last'.exc = "none") =>
            \A i \in Resolved(view_params, last'.urlpattern.callback) :
                /\ view_params[i].key \notin Keys(view_params')
                /\ last'.urlpattern.pattern \in Keys(pattern_params')
                /\ Get(pattern_params', last'.urlpattern.pattern)
                       = normalize_params(view_params[i].val, <<>>).v
      ]_vars

\* C5 (amended): a route registration without route-level declarations, for a
\* pattern with no record yet, whose callback resolves to pending handlers,
\* records the declarations of the first such pending entry in insertion order
\* exactly as register_pattern would and removes that entry alone; a failed
\* registration removes no pending entry; and a pending entry disappears only
\* in a successful registration of a route whose callback resolves to it.
C5_FirstResolvedEntryConsumed ==
    [][ /\ (/\ last'.op = "register_path_params"
            /\ ~NonEmptyList(last'.query_params)
            /\ last'.urlpattern.pattern \notin Keys(pattern_params)
            /\ Resolved(view_params, last'.urlpattern.callback) # {}) =>
              LET res == Resolved(view_params, last'.urlpattern.callback)
                  i == CHOOSE i \in res : \A j \in res : i <= j
                  r == register_pattern(pattern_params, last'.urlpattern.pattern,
                                        view_params[i].val)
              IN  IF Ok(r)
                  THEN /\ last'.exc = "none"
                       /\ pattern_params' = r.v
                       /\ view_params' = SelectSeq(view_params,
                                             LAMBDA e : e.key # view_params[i].key)
                  ELSE /\ last'.exc = r.exc
                       /\ pattern_params' = pattern_params
                       /\ view_params' = view_params
        /\ (last'.op = "register_path_params" /\ last'.exc # "none") =>
              view_params' = view_params
        /\ (Keys(view_params) \ Keys(view_params') # {}) =>
              /\ last'.op = "register_path_params"
              /\ last'.exc = "none"
              /\ Cardinality(Keys(view_params) \ Keys(view_params')) = 1
              /\ Keys(view_params) \ Keys(view_params')
                     \subseteq get_closure_function_ids(last'.urlpattern.callback)
      ]_vars

\* A route was registered from one pending entry while another pending entry,
\* for a handler the same callback resolves to, stays
C5_Witness ==
    /\ last.op = "register_path_params"
    /\ last.exc = "none"
    /\ last.urlpattern.pattern \in Keys(pattern_params)
    /\ Get(pattern_params, last.urlpattern.pattern) = normalize_params(ViewList["view_a"], <<>>).v
    /\ Resolved(view_params, last.urlpattern.callback) # {}

----------------------------------------------------------------------------
(* Properties of construction *)

Constructed == made.op = "new"

BoundedClasses == NumericClasses \cup {"Date"}

PositiveClasses == {"PositiveInt", "PositiveFloat"}

HasBound(kw) == ~IsNone(kw.min_value) \/ ~IsNone(kw.max_value)

\* C8: constructing a bounded declaration with a choice list (an empty one
\* included) and a minimum and/or maximum fails with a configuration error, and
\* constructing any declaration with both choices and validators fails with a
\* configuration error.  (A minimum of exactly 0 is left to C10.)
C8_ChoicesExcludeBoundsAndValidators ==
    (Constructed /\ ~MinValueIsZero(made.kw)) =>
        /\ (/\ made.kw.cls \in BoundedClasses
            /\ ~IsNone(made.kw.choices)
            /\ HasBound(made.kw)) => made.res.exc \in ConfigurationErrors
        /\ (~IsNone(made.kw.choices) /\ ~IsNone(made.kw.validators)) =>
               made.res.exc \in ConfigurationErrors

\* The native value of a bound argument that is well formed for its class
BoundValue(kw, b) ==
    IF kw.cls = "Date" THEN FromIsoFormat(b.s).v
    ELSE IF kw.cls \in {"Float", "PositiveFloat"} THEN b.v * 10 ELSE b.v

WellFormedBound(kw, b) ==
    \/ b.t = "absent"
    \/ kw.cls = "Date" /\ b.t = "str" /\ Ok(FromIsoFormat(b.s))
    \/ kw.cls \in NumericClasses /\ b.t = "num" /\ (kw.cls \in PositiveClasses => b.v >= 0)

\* A call that passes only well-formed bounds, at least one, and nothing else
OnlyBounds(kw) ==
    /\ kw.cls \in BoundedClasses
    /\ Given(kw) \subseteq {"min_value", "max_value"}
    /\ Given(kw) # {}
    /\ WellFormedBound(kw, kw.min_value) /\ WellFormedBound(kw, kw.max_value)
    /\ ~MinValueIsZero(kw)

Inverted(kw) ==
    /\ Given(kw) = {"min_value", "max_value"}
    /\ BoundValue(kw, kw.min_value) > BoundValue(kw, kw.max_value)

OutOfBounds(self, v) ==
    \/ self.min_value.t = "num" /\ v < self.min_value.v
    \/ self.max_value.t = "num" /\ v > self.max_value.v

\* C9: a bounded declaration given only a lower bound, only an upper bound, or
\* both with min <= max is constructed with exactly one bound check attached;
\* given both with min > max its construction fails with a configuration error;
\* and validate_single on the constructed declaration fails with
\* InvalidQueryParameter for every raw value that parses to a value outside the
\* bounds.
C9_BoundsAttachOneCheck ==
    (Constructed /\ OnlyBounds(made.kw)) =>
        IF Inverted(made.kw) THEN made.res.exc \in ConfigurationErrors
        ELSE /\ Ok(made.res)
             /\ Len(made.res.value_checks) = 1
             /\ (/\ checked.op = "validate_single"
                 /\ Ok(parse(made.res, Str_(checked.value)))
                 /\ OutOfBounds(made.res, parse(made.res, Str_(checked.value)).v)) =>
                    checked.res.exc = "InvalidQueryParameter"

\* C10: constructing an Int or a Float with a minimum of exactly 0 yields a
\* declaration of the positive-only class, on which validate_single rejects
\* every negative value and accepts "0" with value 0.
C10_ZeroMinimumIsPositiveOnly ==
    (/\ Constructed
     /\ made.kw.cls \in {"Int", "Float"}
     /\ MinValueIsZero(made.kw)
     /\ Given(made.kw) = {"min_value"}) =>
        /\ Ok(made.res)
        /\ made.res.cls \in PositiveClasses
        /\ checked.op = "validate_single" =>
               LET n == IF made.kw.cls = "Int" THEN PyInt(Str_(checked.value))
                        ELSE PyFloat(Str_(checked.value))
               IN  /\ (Ok(n) /\ n.v < 0) => checked.res.exc = "InvalidQueryParameter"
                   /\ checked.value = <<"0">> => checked.res = Value(0)

----------------------------------------------------------------------------
(* Properties of Bool *)

\* The truthy and falsy tokens a Bool constructor call configures
Tokens(kw) ==
    IF Truthy(kw.custom_bool)
    THEN [truthy |-> kw.custom_bool.items[1], falsy |-> kw.custom_bool.items[2]]
    ELSE [truthy |-> RawTrue, falsy |-> RawFalse]

\* C11: validate_all of a constructed Bool on a non-empty value list depends on
\* the last value v alone: [True] when v is empty and the declaration is not
\* explicit; otherwise v, lower-cased unless ignore_case is off, is compared
\* with the configured tokens as they were given, [True] for the truthy one,
\* [False] for the falsy one, InvalidQueryParameter for anything else; for the
\* default tokens and for custom pairs alike.
C11_BoolLastValueDecides ==
    (/\ Constructed /\ Ok(made.res) /\ made.res.cls = "Bool"
     /\ checked.op = "validate_all" /\ checked.values # <<>>) =>
        LET v == checked.values[Len(checked.values)]
            n == IF made.kw.ignore_case THEN Lower(v) ELSE v
            t == Tokens(made.kw)
        IN  IF v = <<>> /\ ~made.kw.explicit THEN checked.res = Value(<<TRUE>>)
            ELSE IF n = t.truthy THEN checked.res = Value(<<TRUE>>)
            ELSE IF n = t.falsy THEN checked.res = Value(<<FALSE>>)
            ELSE checked.res.exc = "InvalidQueryParameter"

\* A Bool with a custom token pair was given its truthy token and then its
\* falsy token, and answered [False]
C11_Witness ==
    /\ Constructed /\ Ok(made.res) /\ made.res.cls = "Bool"
    /\ Truthy(made.kw.custom_bool)
    /\ checked.op = "validate_all"
    /\ checked.values = <<RawYes, RawNo>>
    /\ checked.res = Value(<<FALSE>>)

----------------------------------------------------------------------------
(* Properties of the recorded declaration lists *)

\* C12: every route's recorded, flattened declaration list holds no two
\* declarations with the same name.
C12_UniqueNamesPerRoute ==
    \A r \in 1..Len(pattern_params) : UniqueNames(pattern_params[r].val)

----------------------------------------------------------------------------
(* Groups: QueryParamCollection objects built from declarations and from   *)
(* groups built before, and the registration of lists that hold them       *)

\* Member lists of plain declarations
PlainMembers == {<<Flag>>, <<Page, Flag>>, <<Flag, Tag>>}

\* Member lists that hold the group g
NestingMembers(g) == {<<g>>, <<Page, g>>}

\* The pattern objects groups are registered on
GroupPatterns == {u \in URLPatterns : u.callback # "wrap_ab"}

\* QueryParamCollection(members)
MakeGroup ==
    /\ \E members \in PlainMembers \cup
                      (IF made.op = "group" /\ Ok(made.res)
                       THEN NestingMembers(made.res) ELSE {}) :
           made' = [op |-> "group", members |-> members,
                    res |-> QueryParamCollection(members)]
    /\ UNCHANGED <<pattern_params, view_params, last, checked>>

\* param_registry.register_pattern(pattern, [..., group, ...])
RegisterGroup ==
    /\ made.op = "group" /\ Ok(made.res)
    /\ \E u \in GroupPatterns, params \in {<<made.res>>, <<Tag, made.res, Page>>} :
        \E r \in {register_pattern(pattern_params, u.pattern, params)} :
            /\ pattern_params' = IF Ok(r) THEN r.v ELSE pattern_params
            /\ last' = [op |-> "register_pattern", pattern |-> u.pattern,
                        params |-> List(params), exc |-> r.exc]
    /\ UNCHANGED <<view_params, made, checked>>

\* request.GET of the requests made to routes recorded from lists with groups
GroupQueries ==
    {"page" :> <<<<"2">>>>,
     ("page" :> <<<<"x">>>>) @@ ("tag" :> <<>>),
     ("flag" :> <<<<"x">>, RawTrue>>) @@ ("page" :> <<<<"2">>>>)}

\* validate_request_params on the routes recorded from lists with groups
RequestGroup ==
    /\ pattern_params # <<>>
    /\ \E path \in Paths, query_dict \in GroupQueries :
        last' = [op |-> "validate_request_params", path |-> path,
                 query_dict |-> query_dict,
                 res |-> validate_request_params(pattern_params, path, query_dict)]
    /\ UNCHANGED <<pattern_params, view_params, made, checked>>

NextGroup == MakeGroup \/ RegisterGroup \/ RequestGroup

SpecGroup == Init /\ [][NextGroup]_vars

\* The member declarations of a list, groups expanded at every depth, in order
RECURSIVE Flatten(_)
Flatten(params) ==
    IF params = <<>> THEN <<>>
    ELSE (IF IsCollection(Head(params)) THEN Flatten(Head(params).query_params)
          ELSE <<Head(params)>>)
         \o Flatten(Tail(params))

\* C13: a group is built from declarations and from groups alike; registering a
\* list that holds groups records the member declarations in their original
\* order with groups expanded at every depth; and a request is answered from
\* the recorded flat list alone, as if the members had been listed directly.
C13_GroupsFlattenRecursively ==
    /\ made.op = "group" => Ok(made.res)
    /\ (last.op = "register_pattern" /\ last.exc = "none") =>
           Get(pattern_params, last.pattern) = Flatten(last.params.items)
    /\ (last.op = "validate_request_params" /\ Len(pattern_params) = 1) =>
           last.res = ValidateDeclared(Flatten(pattern_params[1].val),
                                       last.query_dict, EmptyResult)
                      \/ ~Match(pattern_params[1].key.route, LStrip(last.path, "/"))

\* C13 for the groups that can be built: of declarations only
C13_OneLevelFlattened ==
    /\ (last.op = "register_pattern" /\ last.exc = "none") =>
           Get(pattern_params, last.pattern) = Flatten(last.params.items)
    /\ (last.op = "validate_request_params" /\ Len(pattern_params) = 1) =>
           last.res = ValidateDeclared(Flatten(pattern_params[1].val),
                                       last.query_dict, EmptyResult)
                      \/ ~Match(pattern_params[1].key.route, LStrip(last.path, "/"))

====
